---- MODULE Spec2Model ----
(***************************************************************************)
(* A model of the research-orchestration backend of Misinfo-Detector:      *)
(*   backend/app/services/agentic_controller.py  (planner, collector,      *)
(*       normalizer, synthesizer, run)                                     *)
(*   backend/app/services/credibility.py         (CredibilityEngine)       *)
(*   backend/app/routers/detect.py               (POST /agentic_detect)    *)
(*                                                                         *)
(* Conventions.                                                            *)
(*  - A Python str is a sequence of tokens; a token stands for a run of    *)
(*    characters whose length is TokLen(token).  "k in s" is Contains,     *)
(*    s.lower() is ToLower, s.split("/") is SplitSlash, len(s) is StrLen.  *)
(*  - Floats are fixed-point integers.  The suffix of a name gives the     *)
(*    unit: C = 1/100, M = 1/1000, E5 = 1/100000.  round(x, 3) is          *)
(*    RoundDiv (round half to even).  It rounds the exact decimal value;   *)
(*    Python rounds the binary float, so on an exact tie the two may       *)
(*    differ by one unit of the last place.                                *)
(*  - An exception that leaves a function is the value "raised" (Raised).  *)
(***************************************************************************)
EXTENDS Integers, Sequences, FiniteSets, TLC

VARIABLES
    \* ---- harness of normalize_and_score_evidence
    evidence_list,   \* the argument of the first call
    normalized,      \* its return value
    renormalized,    \* the return value of the call on `normalized`
    norm_pc,         \* "input" | "once" | "twice" | "idle"
    \* ---- harness of CredibilityEngine.score
    cred_args,       \* [article, kg_data, stance, bias_note, has_nx]
    cred_result,     \* Ok(score in 1/1000) or Raised
    cred_parts,      \* the sub-scores score computed on its way
    cred_pc,         \* "input" | "scored" | "idle"
    \* ---- harness of plan_tasks
    plan_args,       \* [available, response, query]
    plan_result,     \* the plan returned
    plan_pc,         \* "input" | "planned" | "idle"
    \* ---- harness of run_task_search_and_scrape
    coll_args,       \* [top_n, searched, scrape]
    coll_result,     \* Ok(out) or Raised
    coll_pc,         \* "input" | "collected" | "idle"
    \* ---- POST /agentic_detect and AgenticResearchAgent.run
    req,             \* the request body: [url, query]
    pc,              \* where the handler is
    status,          \* the HTTP status of the response, 0 before it
    llm_available,   \* self.llm.available
    plan,            \* run's plan
    started,         \* how many tasks of the plan have been started
    evidence_objs,   \* the evidence of the task in progress
    short,           \* what research_agent.analyze returned for this task
    scoring_faults,  \* the flattened items at which cred_engine.score raised
    synth_response,  \* what llm.summarize did at line 193 of synthesize_brief
    task_results,    \* run's task_results
    final,           \* the brief
    out              \* what run returned

normVars == <<evidence_list, normalized, renormalized, norm_pc>>
credVars == <<cred_args, cred_result, cred_parts, cred_pc>>
planVars == <<plan_args, plan_result, plan_pc>>
collVars == <<coll_args, coll_result, coll_pc>>
runVars  == <<llm_available, plan, started, evidence_objs, short, scoring_faults, synth_response,
              task_results, final, out>>
progVars == <<req, pc, status, llm_available, plan, started, evidence_objs,
              short, scoring_faults, synth_response, task_results, final, out>>

vars == <<evidence_list, normalized, renormalized, norm_pc,
          cred_args, cred_result, cred_parts, cred_pc,
          plan_args, plan_result, plan_pc,
          coll_args, coll_result, coll_pc,
          req, pc, status, llm_available, plan, started, evidence_objs,
          short, scoring_faults, synth_response, task_results, final, out>>

-----------------------------------------------------------------------------
(* Bounds of the model                                                     *)

\* longest evidence list handed to normalize_and_score_evidence
MaxItems == 3

\* longest JSON array the planner harness lets the LLM answer with
MaxLLMTasks == 7

\* longest JSON array the LLM answers with when run as a whole is explored
MaxRunTasks == 4

\* most hits the search tool returns to the collector harness
MaxHits == 3

-----------------------------------------------------------------------------
(* Strings                                                                 *)

EmptyStr == <<>>

\* len() of one token: the number of characters the token stands for
TokLen(tok) ==
    CASE tok = "x49"   -> 49
      [] tok = "x50"   -> 50
      [] tok = "x299"  -> 299
      [] tok = "x499"  -> 499
      [] tok = "x3999" -> 3999
      [] tok = "x5000" -> 5000
      [] tok = "nn"    -> 2      \* the separator "\n\n"
      [] tok = "bbc." -> 4
      [] tok = "BBC." -> 4
      [] tok = "nature." -> 7
      [] tok = "thehindu" -> 8
      [] tok = "https:" -> 6
      [] tok = "www." -> 4
      [] tok = "com" -> 3
      [] tok = "co.uk" -> 5
      [] tok = "blog." -> 5
      [] tok = "example" -> 7
      [] tok = "news" -> 4
      [] tok = "x400"  -> 400
      [] tok = "x240"  -> 240
      [] tok = "..."   -> 3
      [] tok = "Alice" -> 5
      [] tok = "Bob"   -> 3
      [] tok = "met"   -> 3
      [] OTHER -> 1

RECURSIVE StrLen(_)
StrLen(s) == IF s = <<>> THEN 0 ELSE TokLen(Head(s)) + StrLen(Tail(s))

\* "k in s" for a marker k that is one token
Contains(s, k) == \E i \in 1..Len(s) : s[i] = k

\* s.count(c) for a one-character token c
Count(s, c) == Cardinality({i \in 1..Len(s) : s[i] = c})

LowerTok(tok) ==
    CASE tok = "BBC." -> "bbc."
      [] tok = "Sensational" -> "sensational"
      [] tok = "Highly Biased" -> "highly biased"
      [] OTHER -> tok

ToLower(s) == [i \in 1..Len(s) |-> LowerTok(s[i])]

IsSpace(tok) == tok \in {" ", "nn"}

\* s.strip()
RECURSIVE LStrip(_)
LStrip(s) == IF s # <<>> /\ IsSpace(Head(s)) THEN LStrip(Tail(s)) ELSE s

RECURSIVE RStrip(_)
RStrip(s) ==
    IF s # <<>> /\ IsSpace(s[Len(s)]) THEN RStrip(SubSeq(s, 1, Len(s) - 1)) ELSE s

Strip(s) == RStrip(LStrip(s))

\* s.split("/"): the segments between the "/" tokens
RECURSIVE SplitSlashAcc(_, _, _)
SplitSlashAcc(s, cur, acc) ==
    IF s = <<>> THEN Append(acc, cur)
    ELSE IF Head(s) = "/" THEN SplitSlashAcc(Tail(s), <<>>, Append(acc, cur))
    ELSE SplitSlashAcc(Tail(s), Append(cur, Head(s)), acc)

SplitSlash(s) == SplitSlashAcc(s, <<>>, <<>>)

\* hashlib.sha1(t).hexdigest(): an injective image of t that is no url or id
hash_text(t) == <<"sha1(">> \o t \o <<")">>

-----------------------------------------------------------------------------
(* Fixed-point arithmetic                                                  *)

Max(a, b) == IF a >= b THEN a ELSE b
Min(a, b) == IF a <= b THEN a ELSE b

\* round(n / d) for d > 0, half to even, as Python's round()
RoundDiv(n, d) ==
    LET q == n \div d
        r == n % d
    IN  IF 2 * r > d THEN q + 1
        ELSE IF 2 * r < d THEN q
        ELSE IF q % 2 = 0 THEN q ELSE q + 1

RECURSIVE Pow10(_)
Pow10(n) == IF n = 0 THEN 1 ELSE 10 * Pow10(n - 1)

RECURSIVE Pow2(_)
Pow2(n) == IF n = 0 THEN 1 ELSE 2 * Pow2(n - 1)

\* floor(num * 10^n / den) for 0 <= num, 0 < den, digit by digit
RECURSIVE FracDigits(_, _, _)
FracDigits(num, den, n) ==
    IF n = 0 THEN 0
    ELSE ((num * 10) \div den) * Pow10(n - 1)
         + FracDigits((num * 10) % den, den, n - 1)

ScaledDiv(num, den, n) ==
    (num \div den) * Pow10(n) + FracDigits(num % den, den, n)

RECURSIVE FloorLog2(_)
FloorLog2(x) == IF x < 2 THEN 0 ELSE 1 + FloorLog2(x \div 2)

\* math.log(x) in 1/100000 for an integer x >= 1:
\*   x = y * 2^k with 1 <= y < 2,  z = (y-1)/(y+1),
\*   ln x = k ln 2 + 2 (z + z^3/3 + z^5/5 + z^7/7 + z^9/9)
LnE5(x) ==
    LET k  == FloorLog2(x)
        y  == ScaledDiv(x, Pow2(k), 5)
        z  == ScaledDiv(y - 100000, y + 100000, 5)
        z2 == (z * z) \div 100000
        t3 == (z * z2) \div 100000
        t5 == (t3 * z2) \div 100000
        t7 == (t5 * z2) \div 100000
        t9 == (t7 * z2) \div 100000
    IN  (k * 6931472) \div 100
        + 2 * (z + t3 \div 3 + t5 \div 5 + t7 \div 7 + t9 \div 9)

\* math.log1p(n)
Log1pE5(n) == LnE5(1 + n)

-----------------------------------------------------------------------------
(* normalize_and_score_evidence                                            *)

\* the identity key of line 144
Key(e) ==
    IF e.url # EmptyStr THEN e.url
    ELSE IF e.source_id # EmptyStr THEN e.source_id
    ELSE hash_text(e.snippet)

KeyIndex(dedup, k) ==
    IF \E i \in 1..Len(dedup) : dedup[i].key = k
    THEN CHOOSE i \in 1..Len(dedup) : dedup[i].key = k
    ELSE 0

\* MergeInto without the membership test of line 145: every item is kept
MergeIntoNoDedup(dedup, e) == Append(dedup, [key |-> Key(e), item |-> e])

\* MergeInto reading dedup[key] again after line 151 replaced it: the score
\* of the item that was dropped is lost
MergeIntoLosesScore(dedup, e) ==
    LET k == Key(e)
        i == KeyIndex(dedup, k)
    IN  IF i = 0 THEN Append(dedup, [key |-> k, item |-> e])
        ELSE LET existing == dedup[i].item
                 kept == IF StrLen(e.text) > StrLen(existing.text)
                         THEN e ELSE existing
             IN  [dedup EXCEPT ![i].item =
                    [kept EXCEPT !.score = Max(kept.score, e.score)]]

\* one iteration of the loop of lines 143-152; dedup is the dict, as the
\* sequence of its (key, item) pairs in insertion order
MergeInto(dedup, e) ==
    LET k == Key(e)
        i == KeyIndex(dedup, k)
    IN  IF i = 0 THEN Append(dedup, [key |-> k, item |-> e])
        ELSE LET existing == dedup[i].item
                 kept == IF StrLen(e.text) > StrLen(existing.text)
                         THEN e ELSE existing
             IN  [dedup EXCEPT ![i].item =
                    [kept EXCEPT !.score = Max(existing.score, e.score)]]

RECURSIVE Dedup(_, _)
Dedup(list, dedup) ==
    IF list = <<>> THEN dedup
    ELSE Dedup(Tail(list), MergeInto(dedup, Head(list)))

\* list(dedup.values())
DictValues(dedup) == [i \in 1..Len(dedup) |-> dedup[i].item]

TrustedNews == {"bbc.", "reuters.", "nytimes.", "theguardian.", "apnews"}

\* dom_score of lines 158-160, in 1/100
DomScoreC(domain) ==
    IF \E k \in TrustedNews : Contains(domain, k) THEN 95 ELSE 50

\* length_factor of lines 161-162, in 1/100000
LengthFactorE5(text) ==
    LET length == Max(1, StrLen(text))
    IN  Min(100000, ScaledDiv(Log1pE5(length), Log1pE5(4000), 5))

\* line 163: round(dom_score * score * (0.6*length_factor + 0.4), 3), in 1/1000
Relevance(item) ==
    LET factorE5 == RoundDiv(6 * LengthFactorE5(item.text) + 400000, 10)
    IN  RoundDiv(DomScoreC(item.domain) * item.score * factorE5, 1000000)

WithRelevance(item) ==
    [f \in (DOMAIN item) \cup {"relevance"} |->
        IF f = "relevance" THEN Relevance(item) ELSE item[f]]

\* InsertDesc of a sort that is not stable: x goes before its equals
RECURSIVE InsertDescUnstable(_, _)
InsertDescUnstable(sorted, x) ==
    IF sorted = <<>> THEN <<x>>
    ELSE IF Head(sorted).relevance > x.relevance
         THEN <<Head(sorted)>> \o InsertDescUnstable(Tail(sorted), x)
         ELSE <<x>> \o sorted

\* list.sort(key=relevance, reverse=True): stable, descending
RECURSIVE InsertDesc(_, _)
InsertDesc(sorted, x) ==
    IF sorted = <<>> THEN <<x>>
    ELSE IF Head(sorted).relevance >= x.relevance
         THEN <<Head(sorted)>> \o InsertDesc(Tail(sorted), x)
         ELSE <<x>> \o sorted

RECURSIVE SortDesc(_, _)
SortDesc(list, sorted) ==
    IF list = <<>> THEN sorted
    ELSE SortDesc(Tail(list), InsertDesc(sorted, Head(list)))

normalize_and_score_evidence(list) ==
    LET vals == DictValues(Dedup(list, <<>>))
        scored == [i \in 1..Len(vals) |-> WithRelevance(vals[i])]
    IN  SortDesc(scored, <<>>)

-----------------------------------------------------------------------------
(* Python values whose type varies: None, numbers, strings, dicts          *)

None     == [t |-> "none"]
Num(v)   == [t |-> "num", v |-> v]          \* a float, in 1/1000
Str(x)   == [t |-> "str", s |-> x]
Dict(d)  == [t |-> "dict", d |-> d]         \* d: a record, key -> value
Other(x) == [t |-> "other", s |-> x]        \* a list, an object without .get

\* the result of a call: a value, or an exception leaving the call
Ok(v)  == [ok |-> TRUE, val |-> v]
Raised == [ok |-> FALSE]

\* bool(x)
Truthy(x) ==
    CASE x.t = "none"  -> FALSE
      [] x.t = "num"   -> x.v # 0
      [] x.t = "str"   -> x.s # <<>>
      [] x.t = "dict"  -> DOMAIN x.d # {}
      [] OTHER         -> TRUE

\* d.get(k, default) on a dict value
Get(x, k, default) == IF k \in DOMAIN x.d THEN x.d[k] ELSE default

-----------------------------------------------------------------------------
(* CredibilityEngine                                                       *)

TrustedOutlets ==
    {"bbc.", "reuters.", "nytimes.", "theguardian.", "washingtonpost.",
     "cnn.", "aljazeera.", "apnews."}
AcademicDomains == {"ieee.", "springer.", "nature.", "sciencedirect.", "acm.", "nih.gov"}
LocalOutlets == {"thehindu", "timesofindia", "indianexpress", "lallantop"}

\* _domain_reliability_score with the tiers tried in another order: the
\* regional outlets first
DomainScoreLocalFirst(url) ==
    IF url = EmptyStr THEN 450
    ELSE LET u == ToLower(url)
         IN  IF \E l \in LocalOutlets : Contains(u, l) THEN 700
             ELSE IF \E t \in TrustedOutlets : Contains(u, t) THEN 950
             ELSE IF \E a \in AcademicDomains : Contains(u, a) THEN 850
             ELSE 500

\* _domain_reliability_score, in 1/1000
domain_reliability_score(url) ==
    IF url = EmptyStr THEN 450
    ELSE LET u == ToLower(url)
         IN  IF \E t \in TrustedOutlets : Contains(u, t) THEN 950
             ELSE IF \E a \in AcademicDomains : Contains(u, a) THEN 850
             ELSE IF \E l \in LocalOutlets : Contains(u, l) THEN 700
             ELSE 500

\* _content_score, in 1/1000
content_score(text) ==
    IF text = EmptyStr THEN 200
    ELSE LET len   == StrLen(text)
             lnE5  == Min(100000, ScaledDiv(Log1pE5(len), Log1pE5(5000), 5))
             sents == Count(text, ".") + Count(text, "!") + Count(text, "?")
             densE5 == IF len <= 200 THEN Min(100000, sents * 100000)
                       ELSE Min(100000, ScaledDiv(sents * 200, len, 5))
         IN  RoundDiv(lnE5 + densE5, 200)

\* nid of line 107: n.get("id") or n.get("label") or n.get("text");
\* the empty string stands for a missing key, and the result <<>> for None
NodeId(n) ==
    IF n.id # EmptyStr THEN n.id
    ELSE IF n.label # EmptyStr THEN n.label
    ELSE n.text

\* _kg_centrality_score, in 1/1000; has_nx is the module flag _has_nx
kg_centrality_score(kg_data, has_nx) ==
    IF ~has_nx \/ ~Truthy(kg_data) THEN 500
    ELSE IF kg_data.t # "dict" THEN 500                 \* .get raises: except
    ELSE LET nodes == Get(kg_data, "nodes", <<>>)
             links == Get(kg_data, "links", <<>>)
             listed == {NodeId(nodes[i]) : i \in 1..Len(nodes)}
             valid == {i \in 1..Len(links) :
                          links[i].source # EmptyStr /\ links[i].target # EmptyStr}
             edges == {{links[i].source, links[i].target} : i \in valid}
             G == listed \cup UNION edges
             n == Cardinality(G)
         IN  IF EmptyStr \in listed THEN 500            \* add_node(None) raises
             ELSE IF n < 2 THEN 450
             ELSE Min(950, RoundDiv(3000 * Cardinality(edges), n * (n - 1)))

\* _bias_penalty without its tiers
BiasPenaltyNone(bias_note) == 0

\* _bias_penalty, in 1/1000
bias_penalty(bias_note) ==
    IF bias_note = EmptyStr THEN 0
    ELSE LET low == ToLower(bias_note)
         IN  IF \/ Contains(low, "sensational")
                \/ Contains(low, "opinionated")
                \/ Contains(low, "highly biased") THEN 180
             ELSE IF Contains(low, "slightly biased") THEN 60
             ELSE 0

\* float(x): a number, or ValueError / TypeError
IsFloatable(x) == x.t = "num"

\* line 67 without max() and min()
ClampNone(x) == x

\* the final clamp of line 67, in 1/100000
ClampUnit(x) == Max(0, Min(100000, x))

\* the sub-scores of lines 50-58 that do not depend on the stance, in 1/1000
ScoreLocals(article, kg_data, bias_note, has_nx) ==
    [ domain_score     |-> domain_reliability_score(article.url),
      content_score    |-> content_score(Strip(article.text)),
      centrality_score |-> IF Truthy(kg_data) THEN kg_centrality_score(kg_data, has_nx)
                           ELSE 500,
      bias_penalty     |-> bias_penalty(bias_note) ]

\* CredibilityEngine.score: Ok(score in 1/1000), or Raised when float()
\* of the support value raises
score(article, kg_data, stance, bias_note, has_nx) ==
    LET url  == article.url
        text == Strip(article.text)
        domain_m  == domain_reliability_score(url)
        content_m == content_score(text)
        support   == IF stance.t = "dict" THEN Get(stance, "support", Num(500))
                     ELSE Num(500)
        central_m == IF Truthy(kg_data) THEN kg_centrality_score(kg_data, has_nx)
                     ELSE 500
        penalty_m == bias_penalty(bias_note)
    IN  IF ~IsFloatable(support) THEN Raised
        ELSE LET rawE5 == 30 * domain_m + 25 * content_m
                          + 30 * support.v + 15 * central_m
             IN  Ok(RoundDiv(ClampUnit(rawE5 - 100 * penalty_m), 100))

-----------------------------------------------------------------------------
(* plan_tasks                                                              *)

\* str(i) for a small i
DigitTok(i) ==
    CASE i = 0 -> "0" [] i = 1 -> "1" [] i = 2 -> "2" [] i = 3 -> "3"
      [] i = 4 -> "4" [] i = 5 -> "5" [] i = 6 -> "6" [] i = 7 -> "7"
      [] i = 8 -> "8" [] i = 9 -> "9" [] OTHER -> "10+"

Task(id, role, prompt, requires_search) ==
    [id |-> id, role |-> role, prompt |-> prompt, requires_search |-> requires_search]

\* the plan of lines 75-79, returned when the LLM is not available
UnavailablePlan(query) ==
    << Task(<<"t", "1">>, "background",
            <<"Background: define and scope '">> \o query \o <<"'">>, TRUE),
       Task(<<"t", "2">>, "evidence",
            <<"Evidence: find key studies or news pieces for '">> \o query \o <<"'">>, TRUE),
       Task(<<"t", "3">>, "implications",
            <<"Implications & open questions for '">> \o query \o <<"'">>, FALSE) >>

\* the plan of lines 102-106, returned when the LLM call or the parse fails
FallbackPlan(query) ==
    << Task(<<"t", "1">>, "background",
            <<"Background: define and scope '">> \o query \o <<"'">>, TRUE),
       Task(<<"t", "2">>, "evidence",
            <<"Evidence: find key studies or news pieces for '">> \o query \o <<"'">>, TRUE),
       Task(<<"t", "3">>, "implications",
            <<"Implications & recommendations for '">> \o query \o <<"'">>, FALSE) >>

\* t.setdefault(k, v) on the record t
SetDefault(t, k, v) ==
    IF k \in DOMAIN t THEN t
    ELSE [f \in (DOMAIN t) \cup {k} |-> IF f = k THEN v ELSE t[f]]

\* lines 93-96 for the i-th element (1-based) of the parsed array
Backfill(t, i, query) ==
    LET t1 == SetDefault(t,  "id", <<"t", DigitTok(i)>>)
        t2 == SetDefault(t1, "role", "evidence")
        t3 == SetDefault(t2, "prompt", <<"Investigate: ">> \o query)
    IN  SetDefault(t3, "requires_search", TRUE)

\* What llm.summarize can do at line 85 (response.kind):
\*   "throws"   it raises
\*   "text"     it returns text holding no [...]: re.search finds nothing
\*   "bad_json" it returns a [...] that json.loads rejects
\*   "array"    it returns a JSON array, response.items
\* plan_tasks never lets an exception out: lines 84-100
plan_tasks(available, response, query) ==
    IF ~available THEN UnavailablePlan(query)
    ELSE IF response.kind = "array"
            /\ \A i \in 1..Len(response.items) : response.items[i].t = "dict"
         THEN [i \in 1..Len(response.items) |->
                  Backfill(response.items[i].d, i, query)]
         ELSE FallbackPlan(query)

-----------------------------------------------------------------------------
(* _norm_text and slicing                                                  *)

\* the first k characters of a token that stands for a run of characters
CutTok(tok, k) ==
    CASE k = 400 /\ tok \in {"x499", "x3999", "x5000"} -> "x400"
      [] k = 240 /\ tok \in {"x299", "x400", "x499", "x3999", "x5000"} -> "x240"

\* s[:n]
RECURSIVE Slice(_, _)
Slice(s, n) ==
    IF s = <<>> \/ n <= 0 THEN <<>>
    ELSE IF TokLen(Head(s)) <= n
         THEN <<Head(s)>> \o Slice(Tail(s), n - TokLen(Head(s)))
         ELSE <<CutTok(Head(s), n)>>

\* " ".join(s.split()): whitespace runs become one space, none at the ends
RECURSIVE CollapseSpaces(_)
CollapseSpaces(s) ==
    IF s = <<>> THEN <<>>
    ELSE IF IsSpace(Head(s))
         THEN LET rest == LStrip(s)
              IN  IF rest = <<>> THEN <<>> ELSE <<" ">> \o CollapseSpaces(rest)
         ELSE <<Head(s)>> \o CollapseSpaces(Tail(s))

JoinSplit(t) == CollapseSpaces(Strip(t))

\* s.rsplit(" ", 1)[0]
RSplitHead(s) ==
    IF Contains(s, " ")
    THEN LET last == CHOOSE i \in 1..Len(s) :
                        s[i] = " " /\ \A j \in (i + 1)..Len(s) : s[j] # " "
         IN  SubSeq(s, 1, last - 1)
    ELSE s

\* _norm_text(t, length)
norm_text(t, length) ==
    IF t = EmptyStr THEN EmptyStr
    ELSE LET s == JoinSplit(t)
         IN  IF StrLen(s) <= length THEN s
             ELSE RSplitHead(Slice(s, length)) \o <<"...">>

-----------------------------------------------------------------------------
(* run_task_search_and_scrape                                              *)

\* the snippet object of lines 127-135; the hit r keeps "" for a missing key
SnippetObject(r, page) ==
    LET url == r.url
        page_text == Get(page, "text", EmptyStr)
    IN  [ source_id |-> IF r.id # EmptyStr THEN r.id ELSE hash_text(url),
          url       |-> url,
          title     |-> IF r.title # EmptyStr THEN r.title
                        ELSE Get(page, "title", EmptyStr),
          snippet   |-> norm_text(IF r.snippet # EmptyStr THEN r.snippet
                                  ELSE Slice(page_text, 400), 400),
          text      |-> page_text,
          domain    |-> IF r.domain # EmptyStr THEN r.domain
                        ELSE SplitSlash(url)[3],
          score     |-> IF r.score.t = "none" THEN 100 ELSE r.score.v ]

\* what building the snippet object raises: page.get on a page that is no
\* dict, url.split("/")[2] on a url with fewer than 3 segments, float() of a
\* score that is no number
SnippetObjectRaises(r, page) ==
    \/ page.t # "dict"
    \/ r.domain = EmptyStr /\ Len(SplitSlash(r.url)) < 3
    \/ r.score.t \notin {"none", "num"}

\* the loop of lines 116-135: Ok(out), or Raised.  scrape[url] is what
\* self.scraper.scrape(url) does: Ok(page), or Raised
RECURSIVE CollectHits(_, _, _, _)
CollectHits(results, scrape, seen_urls, acc) ==
    IF results = <<>> THEN Ok(acc)
    ELSE LET r == Head(results)
         IN  IF r.url = EmptyStr \/ r.url \in seen_urls
             THEN CollectHits(Tail(results), scrape, seen_urls, acc)
             ELSE IF ~scrape[r.url].ok
             THEN CollectHits(Tail(results), scrape, seen_urls \cup {r.url}, acc)
             ELSE IF SnippetObjectRaises(r, scrape[r.url].val) THEN Raised
             ELSE CollectHits(Tail(results), scrape, seen_urls \cup {r.url},
                              Append(acc, SnippetObject(r, scrape[r.url].val)))

\* run_task_search_and_scrape; searched is what self.search.search did:
\* Ok(results), or Raised (line 113 has no handler)
run_task_search_and_scrape(searched, scrape) ==
    IF ~searched.ok THEN Raised
    ELSE CollectHits(searched.val, scrape, {}, <<>>)

-----------------------------------------------------------------------------
(* The branch of run for a task that requires no search: lines 242-254     *)

\* max_task_results, the default of run's parameter
MaxTaskResults == 4

InternalEvidence(task, snippets) ==
    LET taken == SubSeq(snippets, 1, Min(Len(snippets), MaxTaskResults))
    IN  [i \in 1..Len(taken) |->
           [ source_id |-> <<"internal-">> \o task.id \o <<"-", DigitTok(i - 1)>>,
             url       |-> EmptyStr,
             title     |-> task.prompt,
             snippet   |-> norm_text(taken[i], 400),
             text      |-> taken[i],
             domain    |-> <<"internal">>,
             score     |-> 80 ]]

\* analysed is what self.research_agent.analyze did: Ok(dict), or Raised
AnalysisEvidence(task, analysed) ==
    IF ~analysed.ok THEN Raised
    ELSE Ok(InternalEvidence(task, Get(analysed.val, "snippets", <<>>)))

-----------------------------------------------------------------------------
(* build_graph                                                             *)

\* the tokens extract_entities recognizes as entities
EntityToks == {"Alice", "Bob"}

RECURSIVE Entities(_, _)
Entities(text, ents) ==
    IF text = <<>> THEN ents
    ELSE IF Head(text) \in EntityToks /\ ~Contains(ents, Head(text))
         THEN Entities(Tail(text), Append(ents, Head(text)))
         ELSE Entities(Tail(text), ents)

\* text.split('.')
RECURSIVE Sentences(_, _, _)
Sentences(s, cur, acc) ==
    IF s = <<>> THEN Append(acc, cur)
    ELSE IF Head(s) = "." THEN Sentences(Tail(s), <<>>, Append(acc, cur))
    ELSE Sentences(Tail(s), Append(cur, Head(s)), acc)

\* build_graph: the nodes n0, n1, ... of the entities, and a link for every
\* pair of entities found in one sentence
build_graph(text) ==
    LET ents == Entities(text, <<>>)
        sents == Sentences(text, <<>>, <<>>)
        id(i) == <<"n", DigitTok(i - 1)>>
        pairs == {p \in (1..Len(ents)) \X (1..Len(ents)) :
                     /\ p[1] < p[2]
                     /\ \E k \in 1..Len(sents) :
                           Contains(sents[k], ents[p[1]]) /\ Contains(sents[k], ents[p[2]])}
        RECURSIVE LinksOf(_)
        LinksOf(ps) ==
            IF ps = {} THEN <<>>
            ELSE LET p == CHOOSE q \in ps :
                            \A o \in ps : q[1] < o[1] \/ (q[1] = o[1] /\ q[2] <= o[2])
                 IN  <<[source |-> id(p[1]), target |-> id(p[2])]>> \o LinksOf(ps \ {p})
    IN  Dict([ nodes |-> [i \in 1..Len(ents) |->
                            [id |-> id(i), label |-> <<ents[i]>>, text |-> EmptyStr]],
               links |-> LinksOf(pairs) ])

-----------------------------------------------------------------------------
(* synthesize_brief                                                        *)

RECURSIVE Flatten(_)
Flatten(trs) ==
    IF trs = <<>> THEN <<>>
    ELSE Head(trs).evidence \o Flatten(Tail(trs))

Prefix(seq, n) == SubSeq(seq, 1, Min(Len(seq), n))

\* sep.join(parts)
RECURSIVE Join(_, _)
Join(sep, parts) ==
    IF parts = <<>> THEN <<>>
    ELSE IF Len(parts) = 1 THEN parts[1]
    ELSE parts[1] \o sep \o Join(sep, Tail(parts))

\* lines 174-179
Citations(trs) ==
    LET flat == Flatten(trs)
    IN  [i \in 1..Len(flat) |->
           [ id |-> flat[i].source_id, url |-> flat[i].url, title |-> flat[i].title,
             score |-> IF "relevance" \in DOMAIN flat[i] THEN flat[i].relevance ELSE 0 ]]

\* line 184: the texts of the first 3 evidence items of every task
RECURSIVE TopTexts(_)
TopTexts(trs) ==
    IF trs = <<>> THEN <<>>
    ELSE LET ev == Prefix(Head(trs).evidence, 3)
         IN  [i \in 1..Len(ev) |-> ev[i].text] \o TopTexts(Tail(trs))

\* a fallback brief that lists every evidence snippet whole
FallbackBriefUncut(query, trs, citations, kg) ==
    [ sections |->
        [i \in 1..Len(trs) |->
           [ order |-> i,
             content |->
               [ role |-> trs[i].task.role,
                 prompt |-> trs[i].task.prompt,
                 findings |->
                   [j \in 1..Len(trs[i].evidence) |->
                      [snippet |-> trs[i].evidence[j].snippet,
                       domain |-> trs[i].evidence[j].domain]] ] ]],
      conclusion |-> <<"(auto) Brief conclusion for: ">> \o query,
      contradictions_and_uncertainities |-> <<>>,
      citations |-> citations,
      knowledge_graph |-> kg ]

\* lines 206-217
FallbackBrief(query, trs, citations, kg) ==
    [ sections |->
        [i \in 1..Len(trs) |->
           [ order |-> i,
             content |->
               [ role |-> trs[i].task.role,
                 prompt |-> trs[i].task.prompt,
                 findings |->
                   LET ev == Prefix(trs[i].evidence, 3)
                   IN  [j \in 1..Len(ev) |->
                          [snippet |-> Slice(ev[j].snippet, 240), domain |-> ev[j].domain]] ] ]],
      conclusion |-> <<"(auto) Brief conclusion for: ">> \o query,
      contradictions_and_uncertainities |-> <<>>,
      citations |-> citations,
      knowledge_graph |-> kg ]

\* What llm.summarize can do at line 193 (response.kind):
\*   "throws", "text" (no {...} in it), "bad_json" ({...} json.loads rejects),
\*   "object" (a JSON object, response.d)
synthesize_brief(query, trs, available, response) ==
    LET citations == Citations(trs)
        kg == build_graph(Join(<<"nn">>, TopTexts(trs)))
    IN  IF available /\ response.kind = "object"
        THEN SetDefault(SetDefault(response.d, "citations", citations),
                        "knowledge_graph", kg)
        ELSE FallbackBrief(query, trs, citations, kg)

-----------------------------------------------------------------------------
(* run: lines 262-281                                                      *)

\* how many of the flattened items get a credibility (line 267)
CredibilityItems == 12
\* how many of the flattened items make the pseudo-article (line 280)
PseudoArticleItems == 8

WithField(rec, k, v) ==
    [f \in (DOMAIN rec) \cup {k} |-> IF f = k THEN v ELSE rec[f]]

\* lines 267-274 for one item; the handler of line 273 turns an exception
\* into None; raised says that self.cred_engine.score raised on this item
ItemCredibility(s, raised) ==
    LET art == [url |-> s.url, title |-> s.title, text |-> s.text]
        r == score(art, None, Dict([support |-> Num(500)]), EmptyStr, TRUE)
    IN  IF r.ok /\ ~raised THEN Num(r.val) ELSE None

\* a loop over all of flattened instead of flattened[:12]
RECURSIVE AttachCredibilityNoCap(_, _, _)
AttachCredibilityNoCap(trs, before, faults) ==
    IF trs = <<>> THEN <<>>
    ELSE LET tr == Head(trs)
             ev == [j \in 1..Len(tr.evidence) |->
                      WithField(tr.evidence[j], "credibility",
                                ItemCredibility(tr.evidence[j], (before + j) \in faults))]
         IN  <<[task |-> tr.task, evidence |-> ev]>>
             \o AttachCredibilityNoCap(Tail(trs), before + Len(tr.evidence), faults)

\* the items are shared between flattened and trs: tagging the
\* first 12 of flattened tags them in task_results; before is the number of
\* items of the tasks before this one, faults the positions in flattened at
\* which the engine raises
RECURSIVE AttachCredibility(_, _, _)
AttachCredibility(trs, before, faults) ==
    IF trs = <<>> THEN <<>>
    ELSE LET tr == Head(trs)
             ev == [j \in 1..Len(tr.evidence) |->
                      IF before + j <= CredibilityItems
                      THEN WithField(tr.evidence[j], "credibility",
                                     ItemCredibility(tr.evidence[j], (before + j) \in faults))
                      ELSE tr.evidence[j]]
         IN  <<[task |-> tr.task, evidence |-> ev]>>
             \o AttachCredibility(Tail(trs), before + Len(tr.evidence), faults)

\* lines 280-281: Ok(top_cred), or Raised
TopLevelCredibility(query, trs, brief, has_nx) ==
    LET flat == Prefix(Flatten(trs), PseudoArticleItems)
        pseudo_article ==
            [ url |-> EmptyStr, title |-> query,
              text |-> Join(<<"nn">>, [i \in 1..Len(flat) |-> flat[i].text]) ]
        given == IF "stance" \in DOMAIN brief THEN brief.stance ELSE None
        stance == IF Truthy(given) THEN given ELSE Dict([support |-> Num(500)])
        kg_data == IF "knowledge_graph" \in DOMAIN brief THEN brief.knowledge_graph
                   ELSE None
    IN  score(pseudo_article, kg_data, stance, EmptyStr, has_nx)

-----------------------------------------------------------------------------
(* Inputs of the normalization harness                                     *)

UrlBBC  == <<"https:", "/", "/", "www.", "bbc.", "com", "/", "news">>
DomBBC  == <<"www.", "bbc.", "com">>
DomBlog == <<"blog.", "example">>
DomInternal == <<"internal">>

Text0    == <<>>
Text50   == <<"x50">>
Text500  == <<"x499", ".">>
Text4000 == <<"x3999", ".">>

\* how an item is identified: by url, by source_id, by a source_id equal to
\* the url of another item, or by the hash of its snippet
Identities ==
    { [url |-> UrlBBC,   source_id |-> <<"s1">>, snippet |-> <<"a">>, domain |-> DomBBC],
      [url |-> EmptyStr, source_id |-> <<"s1">>, snippet |-> <<"a">>, domain |-> DomBlog],
      [url |-> EmptyStr, source_id |-> UrlBBC,   snippet |-> <<"b">>, domain |-> DomBlog],
      [url |-> EmptyStr, source_id |-> EmptyStr, snippet |-> <<"a">>, domain |-> DomInternal] }

\* (text, score in 1/100): the spec's 50/500 characters and 0.4/0.9, a score
\* above 1 on a text at the saturation length, a negative score on no text
Payloads ==
    { <<Text50, 90>>, <<Text500, 40>>, <<Text4000, 200>>, <<Text0, -50>> }

RawItems ==
    { [source_id |-> id.source_id, url |-> id.url, title |-> <<"t">>,
       snippet |-> id.snippet, text |-> p[1], domain |-> id.domain, score |-> p[2]]
      : id \in Identities, p \in Payloads }

-----------------------------------------------------------------------------
(* Inputs of the credibility harness                                       *)

UrlBBCUpper == <<"https:", "/", "/", "WWW.", "BBC.", "com", "/", "news">>
UrlNature   == <<"https:", "/", "/", "www.", "nature.", "com">>
UrlHindu    == <<"https:", "/", "/", "www.", "thehindu", ".", "com">>
UrlBlog     == <<"https:", "/", "/", "blog.", "example", "/", "post">>
\* urls that match more than one tier
UrlNatureOnBBC   == <<"https:", "/", "/", "www.", "bbc.", "com", "/", "nature.", "html">>
UrlHinduOnNature == <<"https:", "/", "/", "www.", "nature.", "com", "/", "thehindu">>

\* only whitespace: empty once stripped
TextBlank == <<" ", "nn">>
\* 53 characters in three sentences
TextDense == <<"x50", ".", "!", "?">>
\* one character, no sentence
TextWord == <<"a">>

Node(id) == [id |-> id, label |-> EmptyStr, text |-> EmptyStr]
Link(a, b) == [source |-> a, target |-> b]

Graphs ==
    { None,
      Dict(<<>>),
      Other(<<"nodes">>),
      Dict([nodes |-> <<>>, links |-> <<>>]),
      Dict([nodes |-> <<Node(<<"n0">>)>>, links |-> <<Link(<<"n1">>, <<"n2">>)>>]),
      Dict([nodes |-> <<Node(<<"n0">>), Node(<<"n1">>)>>, links |-> <<>>]),
      Dict([nodes |-> <<Node(<<"n0">>), Node(<<"n1">>), Node(<<"n2">>)>>,
            links |-> <<Link(<<"n0">>, <<"n1">>), Link(<<"n1">>, <<"n2">>),
                        Link(<<"n0">>, <<"n2">>), Link(<<"n1">>, <<"n0">>)>>]),
      Dict([nodes |-> <<Node(<<"n0">>), Node(EmptyStr)>>, links |-> <<>>]) }

Stances ==
    { None, Dict(<<>>), Dict([support |-> Str(<<"high">>)]) }
    \cup { Dict([support |-> Num(v)]) : v \in {-500, 0, 500, 1000, 7000} }

BiasNotes ==
    { EmptyStr, <<"highly biased">>, <<"tone:", " ", "Sensational">>,
      <<"slightly biased">>, <<"neutral">> }

Articles ==
    { [url |-> u, text |-> x] :
        u \in {EmptyStr, UrlBBC, UrlBBCUpper, UrlNature, UrlHindu, UrlBlog,
               UrlNatureOnBBC, UrlHinduOnNature},
        x \in {Text0, TextBlank, TextWord, Text50, TextDense, Text4000} }


RECURSIVE SeqsUpTo(_, _)
SeqsUpTo(S, n) ==
    IF n = 0 THEN {<<>>}
    ELSE LET shorter == SeqsUpTo(S, n - 1)
         IN  shorter \cup {Append(s, x) : s \in {t \in shorter : Len(t) = n - 1}, x \in S}

-----------------------------------------------------------------------------
(* Inputs of the planner harness                                           *)

Query1 == <<"climate change">>
Query2 == <<"vaccine safety">>
Queries == {Query1, Query2}

\* task objects an LLM may put in its array: one with no key at all, a
\* complete one, and one with an id of its own and a role outside the list
ObjEmpty == Dict(<<>>)
ObjFull  == Dict([id |-> <<"a">>, role |-> "contradiction",
                  prompt |-> <<"Find rebuttals">>, requires_search |-> FALSE])
ObjOdd   == Dict([id |-> <<"t", "2">>, role |-> "opinion"])
TaskObjects == {ObjEmpty, ObjFull, ObjOdd}

NotCalled == [kind |-> "not called"]
ArrayOf(items) == [kind |-> "array", items |-> items]

PlanResponses ==
    { [kind |-> "throws"], [kind |-> "text"], [kind |-> "bad_json"],
      ArrayOf(<<Num(1000)>>), ArrayOf(<<ObjFull, Str(<<"x">>)>>) }
    \cup { ArrayOf(items) : items \in SeqsUpTo(TaskObjects, MaxLLMTasks) }

\* the harnesses and the handler at rest
IdleNorm ==
    /\ evidence_list = <<>>
    /\ normalized = <<>>
    /\ renormalized = <<>>
    /\ norm_pc = "idle"

IdleScore ==
    /\ cred_args = <<>>
    /\ cred_result = Raised
    /\ cred_parts = <<>>
    /\ cred_pc = "idle"

IdlePlan ==
    /\ plan_args = <<>>
    /\ plan_result = <<>>
    /\ plan_pc = "idle"

IdleColl ==
    /\ coll_args = <<>>
    /\ coll_result = Raised
    /\ coll_pc = "idle"

IdleProg ==
    /\ req = <<>>
    /\ pc = "idle"
    /\ status = 0
    /\ llm_available = FALSE
    /\ plan = <<>>
    /\ started = 0
    /\ evidence_objs = <<>>
    /\ short = <<>>
    /\ scoring_faults = {}
    /\ synth_response = NotCalled
    /\ task_results = <<>>
    /\ final = <<>>
    /\ out = <<>>

InitPlan ==
    /\ plan_args \in
          [available : {FALSE}, response : {NotCalled}, query : Queries]
          \cup [available : {TRUE}, response : PlanResponses, query : Queries]
    /\ plan_result = <<>>
    /\ plan_pc = "input"
    /\ IdleNorm
    /\ IdleScore
    /\ IdleProg
    /\ IdleColl

Plan ==
    /\ plan_pc = "input"
    /\ plan_result' = plan_tasks(plan_args.available, plan_args.response, plan_args.query)
    /\ plan_pc' = "planned"
    /\ UNCHANGED <<plan_args, normVars, credVars, collVars, progVars>>


-----------------------------------------------------------------------------
(* What the collaborators of run can do                                    *)

UrlBare == <<"example", "/", "page">>
TextNews == <<"Alice", " ", "met", " ", "Bob", ".", " ", "x50">>

Hit(id, title, url, snippet, domain, sc) ==
    [id |-> id, title |-> title, url |-> url, snippet |-> snippet,
     domain |-> domain, score |-> sc]

\* a hit with every field, a retrieval score of 2.0, no domain and a snippet
\* of a 499-letter word, two spaces and a letter
HitBBC == Hit(<<"h1">>, <<"BBC story">>, UrlBBC, <<"x499", " ", " ", "b">>, EmptyStr, Num(200))
\* a hit without url
HitNoUrl == Hit(<<"h2">>, <<"no url">>, EmptyStr, <<"c">>, EmptyStr, Num(90))
\* the url of HitBBC again
HitBBCAgain == Hit(<<"h3">>, <<"BBC again">>, UrlBBC, <<"d">>, DomBBC, Num(90))
\* a hit with nothing but a url and a domain
HitBlog == Hit(EmptyStr, EmptyStr, UrlBlog, EmptyStr, DomBlog, None)
\* a hit whose url has no scheme, and no domain
HitBare == Hit(<<"h4">>, <<"bare">>, UrlBare, <<"e">>, EmptyStr, Num(50))

HitList == <<HitBBC, HitNoUrl, HitBBCAgain, HitBlog>>

Page(title, text) == Dict([title |-> title, text |-> text])

ScrapeAllOk ==
    [u \in {UrlBBC, UrlBlog, UrlBare} |->
        IF u = UrlBBC THEN Ok(Page(<<"BBC">>, Text500))
        ELSE Ok(Page(<<"Blog">>, TextNews))]
ScrapeBBCThrows == [ScrapeAllOk EXCEPT ![UrlBBC] = Raised]
ScrapeBlogMalformed == [ScrapeAllOk EXCEPT ![UrlBlog] = Ok(None)]

\* the search tool and the scraper during one task
SearchScenarios ==
    { [searched |-> Raised,             scrape |-> ScrapeAllOk],
      [searched |-> Ok(<<>>),           scrape |-> ScrapeAllOk],
      [searched |-> Ok(HitList),        scrape |-> ScrapeAllOk],
      [searched |-> Ok(HitList),        scrape |-> ScrapeBBCThrows],
      [searched |-> Ok(HitList),        scrape |-> ScrapeBlogMalformed],
      [searched |-> Ok(<<HitBare>>),    scrape |-> ScrapeAllOk] }

Snippet1 == <<"x50", ".">>

\* _make_evidence_snippets(text, 8) of research_agent.py for a text of one
\* sentence, as the prompts of the tasks are: the sentence itself when it
\* has more than 30 characters (line 27), else the chunk text.strip()[:300]
\* (line 30), which is the sentence as well; nothing for an empty text
make_evidence_snippets(text) ==
    IF text = EmptyStr THEN <<>> ELSE <<Strip(text)>>

\* ResearchAgent.analyze of this repository (research_agent.py lines
\* 34-100) without an LLM client: the snippets it extracted go, cut to 240
\* characters, into "evidence" after two header lines; the dict it returns
\* has no "snippets" key
analyze(article) ==
    LET text == Strip(article.text)
        evidence_snips == make_evidence_snippets(text)
        shown == Prefix(evidence_snips, 6)
    IN  Dict([ summary |-> IF text = EmptyStr THEN <<"(no text to summarize)">>
                           ELSE <<"summary">>,
               evidence |-> << <<"Article length: ", "len">>,
                               <<"Title: ">> \o article.title >>
                            \o [i \in 1..Len(shown) |->
                                  <<"Snippet ", DigitTok(i), ": ">> \o Slice(shown[i], 240)],
               contradictions |-> <<>>,
               credibility_score |-> Other(<<"float">>),
               knowledge_graph |-> build_graph(text),
               stance |-> Dict([support |-> Num(500)]),
               bias_note |-> <<"neutral">> ])

\* self.research_agent.analyze(article): it raises; it is the ResearchAgent
\* of this repository; or it is an injected agent whose result lists 1 or 5
\* snippets under "snippets"
AnalysisOutcomes(article) ==
    { Raised,
      Ok(analyze(article)),
      Ok(Dict([snippets |-> <<Snippet1>>])),
      Ok(Dict([snippets |-> <<Snippet1, Snippet1, Snippet1, Snippet1, Snippet1>>])) }

\* the arrays the LLM answers the planning prompt with: up to MaxRunTasks
\* objects, all of them empty (tasks that search), all of them complete
\* (tasks that do not search), or the two in turn
RunTaskArrays ==
    UNION { { [i \in 1..n |-> ObjEmpty],
              [i \in 1..n |-> ObjFull],
              [i \in 1..n |-> IF i % 2 = 1 THEN ObjEmpty ELSE ObjFull] }
            : n \in 0..MaxRunTasks }

RunPlanResponses ==
    { [kind |-> "throws"], [kind |-> "text"], ArrayOf(<<Num(1000)>>) }
    \cup { ArrayOf(items) : items \in RunTaskArrays }

\* JSON objects the LLM may answer the synthesis prompt with
BriefObjects ==
    { [sections |-> <<[order |-> 1, content |-> <<"text">>]>>, conclusion |-> <<"c">>,
       contradictions_and_uncertainities |-> <<>>, citations |-> <<>>],
      [conclusion |-> <<"c">>, stance |-> Dict([support |-> Str(<<"high">>)])],
      [conclusion |-> <<"c">>, stance |-> Dict([support |-> Num(7000)])],
      [conclusion |-> <<"c">>, knowledge_graph |-> Other(<<"graph">>)],
      <<>> }

BriefResponses ==
    { [kind |-> "throws"], [kind |-> "text"], [kind |-> "bad_json"] }
    \cup { [kind |-> "object", d |-> d] : d \in BriefObjects }

\* the request bodies: each field absent (None), empty or given
Requests ==
    [ url : {None, Str(EmptyStr), Str(UrlBlog)},
      query : {None, Str(EmptyStr), Str(Query1)} ]

-----------------------------------------------------------------------------
(* POST /agentic_detect and run, step by step                              *)

InitProg ==
    /\ req \in Requests
    /\ pc = "request"
    /\ status = 0
    /\ llm_available = FALSE
    /\ plan = <<>>
    /\ started = 0
    /\ evidence_objs = <<>>
    /\ short = <<>>
    /\ scoring_faults = {}
    /\ synth_response = NotCalled
    /\ task_results = <<>>
    /\ final = <<>>
    /\ out = <<>>


\* the query run was called with
run_query == req.query.s

\* CASE A, lines 126-158 of detect.py.  Scraper.scrape never raises
\* (scraper.py lines 16-17); ResearchAgent.analyze returns the stance the LLM
\* gave, a bias note and build_graph(text), or raises at its line 74 when the
\* support is no number; the handler of line 176 turns an exception into a 500
AgenticDetectUrl ==
    /\ pc = "request"
    /\ Truthy(req.url)
    /\ \E text \in {Text0, TextNews}, bias_note \in BiasNotes, has_nx \in BOOLEAN,
          stance \in { Dict([support |-> Num(500)]), Dict([support |-> Num(7000)]),
                       Dict([support |-> Str(<<"high">>)]) } :
          IF ~IsFloatable(Get(stance, "support", Num(500)))
          THEN /\ status' = 500
               /\ out' = <<>>
          ELSE LET article == [url |-> req.url.s, title |-> req.url.s, text |-> text]
                   r == score(article, build_graph(text), stance, bias_note, has_nx)
               IN  /\ status' = IF r.ok THEN 200 ELSE 500
                   /\ out' = IF r.ok
                             THEN [mode |-> "url-article-analysis",
                                   credibility_score |-> r.val]
                             ELSE <<>>
    /\ pc' = "responded"
    /\ UNCHANGED <<req, llm_available, plan, started, evidence_objs, task_results, final, short,
                   scoring_faults, synth_response>>

\* CASE B, line 161: agent.run(req.query); the agent was built at line 123
\* and its LLMAgent is available or not.  The steps of run below take the
\* collaborators of the agent from all the behaviours an injected search
\* tool, scraper, research agent and LLM can show, those of the default
\* ones among them
AgenticDetectQuery ==
    /\ pc = "request"
    /\ ~Truthy(req.url)
    /\ Truthy(req.query)
    /\ llm_available' \in BOOLEAN
    /\ pc' = "plan"
    /\ UNCHANGED <<req, status, plan, started, evidence_objs, task_results, final, out, short,
                   scoring_faults, synth_response>>

\* line 174 raises HTTPException(400) inside the try of line 121; the
\* handler `except Exception` of line 176 catches it and raises
\* HTTPException(500)
AgenticDetectNeither ==
    /\ pc = "request"
    /\ ~Truthy(req.url)
    /\ ~Truthy(req.query)
    /\ status' = 500
    /\ pc' = "responded"
    /\ UNCHANGED <<req, runVars>>

\* line 229
PlanTasks ==
    /\ pc = "plan"
    /\ \E response \in (IF llm_available THEN RunPlanResponses ELSE {NotCalled}) :
          /\ plan' = plan_tasks(llm_available, response, run_query)
          /\ pc' = IF plan' = <<>> THEN "credibility" ELSE "task"
    /\ UNCHANGED <<req, status, llm_available, started, evidence_objs, task_results,
                   final, out, short,
                   scoring_faults, synth_response>>

\* the task the loop of line 232 is at
this_task == plan[Len(task_results) + 1]

\* lines 235-238: the next task of the plan starts; it requires search
StartSearchTask ==
    /\ pc = "task"
    /\ this_task.requires_search
    /\ \E sc \in SearchScenarios :
          LET raw_hits == run_task_search_and_scrape(sc.searched, sc.scrape)
          IN  IF raw_hits.ok
              THEN /\ evidence_objs' = normalize_and_score_evidence(raw_hits.val)
                   /\ pc' = "append"
              ELSE /\ evidence_objs' = <<>>
                   /\ pc' = "raised"
    /\ started' = started + 1
    /\ UNCHANGED <<req, status, llm_available, plan, task_results, final, out, short,
                   scoring_faults, synth_response>>

\* lines 239-254: the next task of the plan starts; it requires no search
StartAnalysisTask ==
    /\ pc = "task"
    /\ ~this_task.requires_search
    /\ \E analysed \in AnalysisOutcomes([title |-> run_query, text |-> this_task.prompt]) :
          LET ev == AnalysisEvidence(this_task, analysed)
          IN  IF ev.ok
              THEN /\ evidence_objs' = ev.val
                   /\ short' = analysed.val
                   /\ pc' = "append"
              ELSE /\ evidence_objs' = <<>>
                   /\ short' = <<>>
                   /\ pc' = "raised"
    /\ started' = started + 1
    /\ UNCHANGED <<req, status, llm_available, plan, task_results, final, out,
                   scoring_faults, synth_response>>

\* task_results.append({"task": task, "evidence": evidence_objs}) without
\* the order of the list: the new result goes in front
PrependResult(trs, t, ev) == <<[task |-> t, evidence |-> ev]>> \o trs

\* line 255: task_results.append({"task": task, "evidence": evidence_objs})
AppendResult(trs, t, ev) == Append(trs, [task |-> t, evidence |-> ev])

\* line 255, and the loop of line 232 going on or ending
AppendTaskResult ==
    /\ pc = "append"
    /\ task_results' = AppendResult(task_results, this_task, evidence_objs)
    /\ evidence_objs' = <<>>
    /\ short' = <<>>
    /\ pc' = IF Len(task_results') = Len(plan) THEN "credibility" ELSE "task"
    /\ UNCHANGED <<req, status, llm_available, plan, started, final, out,
                   scoring_faults, synth_response>>

\* where self.cred_engine.score raises among the n flattened items: nowhere
\* (as with the CredibilityEngine of this repository on these items), at
\* the first item, or at the last item that is scored
ScoringFaults(n) ==
    IF n = 0 THEN {{}}
    ELSE {{}, {1}, {Min(n, CredibilityItems)}}

\* lines 262-274
AttachCredibilities ==
    /\ pc = "credibility"
    /\ \E faults \in ScoringFaults(Len(Flatten(task_results))) :
          /\ scoring_faults' = faults
          /\ task_results' = AttachCredibility(task_results, 0, faults)
    /\ pc' = "synthesize"
    /\ UNCHANGED <<req, status, llm_available, plan, started, evidence_objs, final, out,
                   short, synth_response>>

\* line 277
SynthesizeBrief ==
    /\ pc = "synthesize"
    /\ \E response \in (IF llm_available THEN BriefResponses ELSE {NotCalled}) :
          /\ synth_response' = response
          /\ final' = synthesize_brief(run_query, task_results, llm_available, response)
    /\ pc' = "top_level"
    /\ UNCHANGED <<req, status, llm_available, plan, started, evidence_objs,
                   task_results, out, short,
                   scoring_faults>>

\* lines 280-292: run returns, or the exception of score leaves run
ReturnRunResult ==
    /\ pc = "top_level"
    /\ \E has_nx \in BOOLEAN :
          LET top_cred == TopLevelCredibility(run_query, task_results, final, has_nx)
          IN  IF top_cred.ok
              THEN /\ out' = [ query |-> run_query, plan |-> plan,
                               task_results |-> task_results, brief |-> final,
                               top_level_credibility |-> top_cred.val,
                               timestamp |-> "time.time()" ]
                   /\ pc' = "returned"
              ELSE /\ out' = <<>>
                   /\ pc' = "raised"
    /\ UNCHANGED <<req, status, llm_available, plan, started, evidence_objs,
                   task_results, final, short,
                   scoring_faults, synth_response>>

\* lines 162-171: the response of CASE B
RespondResult ==
    /\ pc = "returned"
    /\ status' = 200
    /\ pc' = "responded"
    /\ UNCHANGED <<req, runVars>>

\* line 176-177: an exception of run becomes a 500
RespondFault ==
    /\ pc = "raised"
    /\ status' = 500
    /\ pc' = "responded"
    /\ UNCHANGED <<req, runVars>>

NextProg ==
    \/ AgenticDetectUrl
    \/ AgenticDetectQuery
    \/ AgenticDetectNeither
    \/ PlanTasks
    \/ StartSearchTask
    \/ StartAnalysisTask
    \/ AppendTaskResult
    \/ AttachCredibilities
    \/ SynthesizeBrief
    \/ ReturnRunResult
    \/ RespondResult
    \/ RespondFault

\* ---- the collector on its own

\* what the scraper does with each url: a page, an exception, or something
\* that is no dict
ScrapeOutcomes ==
    [ {UrlBBC, UrlBlog, UrlBare} ->
        { Ok(Page(<<"Page">>, TextNews)), Raised, Ok(None) } ]

\* run_task_search_and_scrape(task_prompt, top_n); the search tool is given
\* n = top_n (line 113) and returns what it returns: it may raise, and it
\* may return more than n hits
InitCollect ==
    /\ coll_args \in
          [ top_n : {1, 2},
            searched : {Raised} \cup
                       { Ok(hits) : hits \in
                           SeqsUpTo({HitBBC, HitNoUrl, HitBBCAgain, HitBlog, HitBare}, MaxHits) },
            scrape : ScrapeOutcomes ]
    /\ coll_result = Raised
    /\ coll_pc = "input"
    /\ IdleNorm
    /\ IdleScore
    /\ IdlePlan
    /\ IdleProg

Collect ==
    /\ coll_pc = "input"
    /\ coll_result' = run_task_search_and_scrape(coll_args.searched, coll_args.scrape)
    /\ coll_pc' = "collected"
    /\ UNCHANGED <<coll_args, normVars, credVars, planVars, progVars>>

SpecCollect == InitCollect /\ [][Collect]_vars

InitScore ==
    /\ cred_args \in [article : Articles, kg_data : Graphs, stance : Stances,
                      bias_note : BiasNotes, has_nx : BOOLEAN]
    /\ cred_result = Raised
    /\ cred_parts = <<>>
    /\ cred_pc = "input"
    /\ IdleNorm
    /\ IdlePlan
    /\ IdleProg
    /\ IdleColl

Score ==
    /\ cred_pc = "input"
    /\ cred_result' = score(cred_args.article, cred_args.kg_data, cred_args.stance,
                            cred_args.bias_note, cred_args.has_nx)
    /\ cred_parts' = ScoreLocals(cred_args.article, cred_args.kg_data,
                                 cred_args.bias_note, cred_args.has_nx)
    /\ cred_pc' = "scored"
    /\ UNCHANGED <<cred_args, normVars, planVars, collVars, progVars>>


InitNorm ==
    /\ evidence_list \in SeqsUpTo(RawItems, MaxItems)
    /\ normalized = <<>>
    /\ renormalized = <<>>
    /\ norm_pc = "input"
    /\ IdleScore
    /\ IdlePlan
    /\ IdleProg
    /\ IdleColl

Normalize ==
    /\ norm_pc = "input"
    /\ normalized' = normalize_and_score_evidence(evidence_list)
    /\ norm_pc' = "once"
    /\ UNCHANGED <<evidence_list, renormalized, credVars, planVars, collVars, progVars>>

Renormalize ==
    /\ norm_pc = "once"
    /\ renormalized' = normalize_and_score_evidence(normalized)
    /\ norm_pc' = "twice"
    /\ UNCHANGED <<evidence_list, normalized, credVars, planVars, collVars, progVars>>

NextNorm == Normalize \/ Renormalize

SpecNorm == InitNorm /\ [][NextNorm]_vars

SpecScore == InitScore /\ [][Score]_vars

SpecPlan == InitPlan /\ [][Plan]_vars

Init == InitProg /\ IdleNorm /\ IdleScore /\ IdlePlan /\ IdleColl

Next == NextProg /\ UNCHANGED <<normVars, credVars, planVars, collVars>>

Spec == Init /\ [][Next]_vars

\* CredibilityEngine.score called on its own, or by the handler and run
InitCredibility ==
    \/ InitScore
    \/ Init

NextCredibility ==
    \/ Score
    \/ Next

SpecCredibility == InitCredibility /\ [][NextCredibility]_vars

-----------------------------------------------------------------------------
(* Properties of normalize_and_score_evidence (checked under SpecNorm)     *)

\* the identity key as the specification words it: the url if non-empty,
\* else the source_id if non-empty, else the hash of the snippet
IdentityKey(e) ==
    CASE e.url # <<>> -> e.url
      [] e.url = <<>> /\ e.source_id # <<>> -> e.source_id
      [] OTHER -> hash_text(e.snippet)

Range(seq) == {seq[i] : i \in 1..Len(seq)}

KeyGroup(list, k) == {i \in 1..Len(list) : IdentityKey(list[i]) = k}

SetMax(S) == CHOOSE m \in S : \A x \in S : x <= m

\* C4: after normalize_and_score_evidence no two items of the output share
\* an identity key, and every identity key of the input is a key of the output.
C4_OneItemPerKey ==
    norm_pc \in {"once", "twice"} =>
        /\ \A i, j \in 1..Len(normalized) :
              i # j => IdentityKey(normalized[i]) # IdentityKey(normalized[j])
        /\ {IdentityKey(e) : e \in Range(evidence_list)}
              \subseteq {IdentityKey(x) : x \in Range(normalized)}

\* an input with a collision and two distinct keys has been normalized
C4_Witness ==
    /\ norm_pc = "once"
    /\ Len(normalized) = 2
    /\ Len(evidence_list) = 3

\* C5: for every group of two or more input items sharing an identity key,
\* the one surviving item has a text as long as the longest text of the
\* group and the largest score of the group.
C5_MergeKeepsLongestAndMax ==
    norm_pc \in {"once", "twice"} =>
        \A k \in {IdentityKey(e) : e \in Range(evidence_list)} :
            LET g == KeyGroup(evidence_list, k)
                survivors == KeyGroup(normalized, k)
            IN  Cardinality(g) >= 2 =>
                  /\ Cardinality(survivors) = 1
                  /\ \A s \in survivors :
                        /\ StrLen(normalized[s].text)
                             = SetMax({StrLen(evidence_list[i].text) : i \in g})
                        /\ normalized[s].score
                             = SetMax({evidence_list[i].score : i \in g})

\* three duplicates: the longest text arrives second, the largest score first
C5_Witness ==
    /\ norm_pc = "once"
    /\ Len(evidence_list) = 3
    /\ Len(normalized) = 1
    /\ StrLen(evidence_list[2].text) > StrLen(evidence_list[1].text)
    /\ StrLen(evidence_list[2].text) > StrLen(evidence_list[3].text)
    /\ evidence_list[1].score > evidence_list[2].score
    /\ evidence_list[1].score > evidence_list[3].score

\* C6: normalize_and_score_evidence is idempotent: applied to its own output
\* it returns as many items, in the same order, each with the same relevance,
\* score and text.
C6_Idempotent ==
    norm_pc = "twice" =>
        /\ Len(renormalized) = Len(normalized)
        /\ \A i \in 1..Len(normalized) :
              /\ IdentityKey(renormalized[i]) = IdentityKey(normalized[i])
              /\ renormalized[i].relevance = normalized[i].relevance
              /\ renormalized[i].score = normalized[i].score
              /\ renormalized[i].text = normalized[i].text

\* the second pass ran on a merged list that holds two items of equal relevance
C6_Witness ==
    /\ norm_pc = "twice"
    /\ Len(normalized) < Len(evidence_list)
    /\ \E i, j \in 1..Len(normalized) :
          i # j /\ normalized[i].relevance = normalized[j].relevance

\* C7: every item returned by normalize_and_score_evidence has a relevance
\* in [0,1], whatever the retrieval score of the item.
C7_RelevanceInUnitRange ==
    norm_pc \in {"once", "twice"} =>
        \A i \in 1..Len(normalized) :
            normalized[i].relevance >= 0 /\ normalized[i].relevance <= 1000

-----------------------------------------------------------------------------
(* POST /agentic_detect and run: Spec                                      *)

NeitherGiven == ~Truthy(req.url) /\ ~Truthy(req.query)

\* C1: a request with neither a url nor a query (each absent or empty) is
\* answered with status 400 and with no other status.
C1_NeitherGives400 ==
    (pc = "responded" /\ NeitherGiven) => status = 400

\* C2: run, called with a non-empty query, never raises, whatever the search
\* tool, the scraper, the research agent and the LLM do: no exception leaves
\* run.
C2_RunNeverRaises ==
    pc # "raised"

\* every evidence item of a list of task results
EvidenceItems(trs) ==
    UNION { { trs[i].evidence[j] : j \in 1..Len(trs[i].evidence) } : i \in 1..Len(trs) }

\* C3: in every result run returns, task_results is as long as plan and
\* task_results[i].task is plan[i], whatever the collaborators did; and a
\* task is started only when the results of all the tasks before it have
\* been appended (the results appended so far are those of the first tasks
\* of the plan, in the plan's order).
C3_ResultsFollowPlan ==
    /\ pc = "returned" =>
          /\ Len(out.task_results) = Len(out.plan)
          /\ \A i \in 1..Len(out.plan) : out.task_results[i].task = out.plan[i]
    /\ pc \in {"task", "append"} =>
          /\ Len(task_results) < Len(plan)
          /\ started = Len(task_results) + (IF pc = "append" THEN 1 ELSE 0)
          /\ \A i \in 1..Len(task_results) : task_results[i].task = plan[i]
    /\ pc = "raised" => started <= Len(task_results) + 1

\* a plan of 4 tasks of both kinds was run; some task found nothing and
\* some task found evidence
C3_Witness ==
    /\ pc = "returned"
    /\ Len(out.plan) = 4
    /\ \E i, j \in 1..4 : out.plan[i] # out.plan[j]
    /\ \E i \in 1..4 : out.task_results[i].evidence = <<>>
    /\ \E i \in 1..4 : out.task_results[i].evidence # <<>>

-----------------------------------------------------------------------------
(* CredibilityEngine.score: SpecCredibility                                *)

InUnitRange(milli) == milli \in 0..1000

\* the support float() is applied to at line 54
SupportOf(stance) ==
    IF stance.t = "dict" THEN Get(stance, "support", Num(500)) ELSE Num(500)

\* C8: score returns a value in [0,1] for every article, knowledge graph
\* (none included), stance (empty, or with a support outside [0,1]) and bias
\* note; every credibility run attaches to an evidence item is in [0,1] or
\* None, and top_level_credibility is in [0,1].
C8_CredibilityInUnitRange ==
    /\ cred_pc = "scored" =>
          /\ cred_result.ok => InUnitRange(cred_result.val)
          /\ IsFloatable(SupportOf(cred_args.stance)) => cred_result.ok
    /\ \A s \in EvidenceItems(task_results) :
          "credibility" \in DOMAIN s =>
              \/ s.credibility = None
              \/ s.credibility.t = "num" /\ InUnitRange(s.credibility.v)
    /\ pc = "returned" => InUnitRange(out.top_level_credibility)
    /\ (pc = "responded" /\ status = 200 /\ Truthy(req.url)) =>
          InUnitRange(out.credibility_score)

\* score was called with a support of 7.0 and returned 1.0
C8_Witness ==
    /\ cred_pc = "scored"
    /\ SupportOf(cred_args.stance) = Num(7000)
    /\ cred_result = Ok(1000)

-----------------------------------------------------------------------------
(* plan_tasks: SpecPlan                                                    *)

\* C9: plan_tasks returns a plan of between 3 and 6 tasks for every response
\* of an available LLM (an empty array, an array of more than 6 objects, an
\* array of non-objects, no array at all).
C9_PlanHas3To6Tasks ==
    (plan_pc = "planned" /\ plan_args.available) =>
        Len(plan_result) \in 3..6

\* the LLM is unavailable, its call throws, or its response holds no
\* parsable array of task objects
NoTaskArray ==
    \/ ~plan_args.available
    \/ plan_args.response.kind \in {"throws", "text", "bad_json"}
    \/ /\ plan_args.response.kind = "array"
       /\ \E i \in 1..Len(plan_args.response.items) :
             plan_args.response.items[i].t # "dict"

\* C10: without a usable LLM answer plan_tasks returns one and the same
\* template: 3 tasks t1, t2, t3 with the roles background, evidence,
\* implications, requires_search true, true, false, and the same prompts
\* for the query in all of these cases (those of the unavailable LLM).
C10_OneTemplate ==
    (plan_pc = "planned" /\ NoTaskArray) =>
        /\ Len(plan_result) = 3
        /\ [i \in 1..3 |-> plan_result[i].id] = << <<"t", "1">>, <<"t", "2">>, <<"t", "3">> >>
        /\ [i \in 1..3 |-> plan_result[i].role] = <<"background", "evidence", "implications">>
        /\ [i \in 1..3 |-> plan_result[i].requires_search] = <<TRUE, TRUE, FALSE>>
        /\ \A i \in 1..3 :
              plan_result[i].prompt = (UnavailablePlan(plan_args.query))[i].prompt

AllowedRoles == {"background", "evidence", "contradiction", "implications"}

\* C11: every plan plan_tasks returns has pairwise-distinct task ids, a role
\* among background, evidence, contradiction, implications and a non-empty
\* prompt for every task, also when the LLM gives some ids itself and leaves
\* others to be filled in, or gives a role outside the set.
C11_PlanWellFormed ==
    plan_pc = "planned" =>
        /\ \A i, j \in 1..Len(plan_result) :
              i # j => plan_result[i].id # plan_result[j].id
        /\ \A i \in 1..Len(plan_result) :
              /\ plan_result[i].role \in AllowedRoles
              /\ plan_result[i].prompt # EmptyStr

-----------------------------------------------------------------------------
(* CredibilityEngine.score and its parts: SpecScore                        *)

\* score was called with a bias note holding "highly biased" and a support
\* in [0,1]
BiasedCall ==
    /\ cred_pc = "scored"
    /\ Contains(cred_args.bias_note, "highly biased")
    /\ IsFloatable(SupportOf(cred_args.stance))
    /\ InUnitRange(SupportOf(cred_args.stance).v)

\* what score returns for the same article, graph and stance and an empty
\* bias note
UnbiasedScore ==
    score(cred_args.article, cred_args.kg_data, cred_args.stance, EmptyStr,
          cred_args.has_nx).val

Names(url, list) == \E k \in list : Contains(ToLower(url), k)

\* C13: the domain score is 0.45 for an empty url, else 0.95 when the url
\* names a major international outlet, else 0.85 for an academic or
\* publisher domain, else 0.70 for a regional outlet, else 0.5; the first
\* tier that matches, in this order, wins, and the score is always one of
\* these five values.
C13_DomainTiers ==
    cred_pc = "scored" =>
        LET url == cred_args.article.url
            d == cred_parts.domain_score
            tier == IF url = EmptyStr THEN 1
                    ELSE IF Names(url, TrustedOutlets) THEN 2
                    ELSE IF Names(url, AcademicDomains) THEN 3
                    ELSE IF Names(url, LocalOutlets) THEN 4
                    ELSE 5
        IN  /\ d \in {450, 950, 850, 700, 500}
            /\ d = <<450, 950, 850, 700, 500>>[tier]
            /\ url = UrlBBC => d = 950
            /\ url = UrlBlog => d = 500

\* the score of a url that names a regional outlet on an academic domain
\* was computed: the academic tier won
C13_Witness ==
    /\ cred_pc = "scored"
    /\ cred_args.article.url = UrlHinduOnNature
    /\ cred_parts.domain_score = 850

-----------------------------------------------------------------------------
(* run with its collaborators: Spec                                        *)

\* run has ended, by a return or by an exception
RunEnded == pc \in {"returned", "raised"}

\* run was called without an LLM and every search of its tasks returned
\* zero hits: the tasks that searched have no evidence, and it is no search
\* that raised (the scenarios of the model in which a search returns hits
\* leave evidence)
OfflineNoHits ==
    /\ RunEnded
    /\ ~llm_available
    /\ \A i \in 1..Len(task_results) :
          task_results[i].task.requires_search => task_results[i].evidence = <<>>
    /\ (pc = "raised" /\ Len(task_results) < Len(plan)) => ~this_task.requires_search

\* score of an article with empty url and empty text, support 0.5 and
\* centrality c (1/1000), no bias: 0.30*0.45 + 0.25*0.2 + 0.30*0.5 + 0.15*c
EmptyArticleScore(c) == RoundDiv(30 * 450 + 25 * 200 + 30 * 500 + 15 * c, 100)

\* C14: without an LLM and with searches that return zero hits, run returns
\* a result with a plan of 3 tasks, 3 task results whose evidence is empty
\* or made of internal items only, a fallback brief of exactly 3 sections
\* with an empty contradictions list, and a top_level_credibility computed
\* from a pseudo-article with empty url and empty text (domain score 0.45,
\* content score 0.2, support 0.5).
C14_OfflineRun ==
    OfflineNoHits =>
        /\ pc = "returned"
        /\ Len(out.plan) = 3
        /\ Len(out.task_results) = 3
        /\ \A s \in EvidenceItems(out.task_results) : s.domain = <<"internal">>
        /\ Len(out.brief.sections) = 3
        /\ out.brief.contradictions_and_uncertainities = <<>>
        /\ out.top_level_credibility \in {EmptyArticleScore(450), EmptyArticleScore(500)}

\* C15: in every task result run produces, for the tasks that search and
\* for the tasks that do not, every evidence item carries a relevance and
\* the evidence is in non-increasing order of relevance.
C15_EvidenceRanked ==
    \A i \in 1..Len(task_results) :
        LET ev == task_results[i].evidence
        IN  /\ \A j \in 1..Len(ev) : "relevance" \in DOMAIN ev[j]
            /\ \A j \in 1..(Len(ev) - 1) : ev[j].relevance >= ev[j + 1].relevance

\* C16: every snippet the collector produces is at most 400 characters
\* long, the ellipsis marker included, also when the first 400 characters
\* of the collapsed text hold no space.
C16_SnippetWithinBudget ==
    \A s \in EvidenceItems(task_results) \cup Range(evidence_objs) :
        StrLen(s.snippet) <= 400

-----------------------------------------------------------------------------
(* run_task_search_and_scrape: SpecCollect                                 *)

\* C17: the collector returns at most top_n evidence items, whatever number
\* of hits the search tool returns, also when the tool ignores the count it
\* was asked for.
C17_AtMostTopN ==
    (coll_pc = "collected" /\ coll_result.ok) =>
        Len(coll_result.val) <= coll_args.top_n

\* the hits the search tool returned to the collector
Hits == coll_args.searched.val

\* the hits with a non-empty url, not seen earlier in the call, whose scrape
\* did not throw
KeptHits ==
    { i \in 1..Len(Hits) :
        /\ Hits[i].url # EmptyStr
        /\ \A j \in 1..(i - 1) : Hits[j].url # Hits[i].url
        /\ coll_args.scrape[Hits[i].url].ok }

\* the k-th of them, in hit order
KthKept(k) == CHOOSE i \in KeptHits : Cardinality({j \in KeptHits : j <= i}) = k

\* C18: the collector returns, in hit order, exactly one item for each hit
\* that has a non-empty url not seen earlier in the call and whose scrape
\* did not throw; hits with an empty url, repeated urls and hits whose
\* scrape throws are skipped without aborting the call, and a url whose
\* scrape threw is not tried again.
C18_OneItemPerKeptHit ==
    (coll_pc = "collected" /\ coll_args.searched.ok) =>
        /\ coll_result.ok
        /\ Len(coll_result.val) = Cardinality(KeptHits)
        /\ \A k \in 1..Len(coll_result.val) :
              coll_result.val[k].url = Hits[KthKept(k)].url

\* the short snippets the analysis of the task in progress came to: those
\* its result lists under "snippets", or, for the ResearchAgent of this
\* repository, those it extracted from the prompt
AnalysisSnippets ==
    IF "snippets" \in DOMAIN short.d THEN short.d.snippets
    ELSE make_evidence_snippets(this_task.prompt)

\* C19: for a task that requires no search, the evidence is one internal
\* item (domain "internal", score 0.8, empty url) per short snippet of the
\* analysis of {title: query, text: task.prompt}, up to 4: an analysis that
\* extracts k >= 1 snippets from a non-empty prompt gives min(k, 4) items.
C19_InternalEvidence ==
    (pc = "append" /\ ~this_task.requires_search) =>
        /\ Len(evidence_objs) = Min(Len(AnalysisSnippets), 4)
        /\ \A j \in 1..Len(evidence_objs) :
              /\ evidence_objs[j].domain = <<"internal">>
              /\ evidence_objs[j].score = 80
              /\ evidence_objs[j].url = EmptyStr
              /\ evidence_objs[j].text = AnalysisSnippets[j]

\* the per-item credibilities have been attached (line 274 is behind)
Tagged == pc \in {"synthesize", "top_level", "returned"}

\* what the engine gives for one item with support 0.5, no graph and an
\* empty bias note
ExpectedCredibility(s) ==
    (score([url |-> s.url, title |-> s.title, text |-> s.text],
           None, Dict([support |-> Num(500)]), EmptyStr, TRUE)).val

\* of the flattened items flat, exactly the first 12 carry a credibility:
\* None where scoring raised, the engine's score everywhere else
FirstTwelveScored(flat) ==
    /\ \A k \in 1..Len(flat) :
          /\ "credibility" \in DOMAIN flat[k] <=> k <= 12
          /\ k <= 12 /\ k \in scoring_faults => flat[k].credibility = None
    /\ \A s \in {[url |-> flat[k].url, title |-> flat[k].title, text |-> flat[k].text,
                    credibility |-> flat[k].credibility] :
                      k \in {i \in 1..Len(flat) : i <= 12 /\ i \notin scoring_faults}} :
          s.credibility = Num(ExpectedCredibility(s))

\* C20: once run has attached the credibilities, the k-th item of the
\* evidence flattened in task order then per-task order carries a credibility
\* field exactly when k <= 12; the field is the engine's score of the item
\* with support 0.5, no graph and an empty bias note, or None when scoring
\* that item raised; a failure at one item changes no other item, and the run
\* goes on past it.
C20_FirstTwelveScored ==
    Tagged => FirstTwelveScored(Flatten(task_results))

\* a run returned more than 12 items, and scoring the 12th had raised
C20_Witness ==
    /\ pc = "returned"
    /\ Len(Flatten(task_results)) > 12
    /\ scoring_faults = {12}
    /\ (Flatten(task_results))[12].credibility = None
    /\ (Flatten(task_results))[11].credibility # None

-----------------------------------------------------------------------------
(* synthesize_brief: Spec                                                  *)

\* synthesize_brief has returned (line 277 of run is behind)
BriefMade == pc \in {"top_level", "returned"}

\* the LLM was unavailable, its call threw, or its answer held no JSON object
\* json.loads accepts
NoLLMBrief ==
    \/ ~llm_available
    \/ synth_response.kind \in {"throws", "text", "bad_json"}

\* C21: when the LLM is unavailable, throws or answers without a parsable
\* JSON object, synthesize_brief returns the fallback brief: one section per
\* task result with order 1..n in task order, each section listing the first
\* min(3, m) snippets of its task's m evidence items, each cut to at most 240
\* characters, an empty contradictions list, and one citation per evidence
\* item of all tasks in task order.
C21_FallbackBrief ==
    BriefMade /\ NoLLMBrief =>
        LET flat == Flatten(task_results)
        IN  /\ DOMAIN final = {"sections", "conclusion", "contradictions_and_uncertainities",
                               "citations", "knowledge_graph"}
            /\ Len(final.sections) = Len(task_results)
            /\ \A i \in 1..Len(task_results) :
                  LET sec == final.sections[i]
                      ev == task_results[i].evidence
                  IN  /\ sec.order = i
                      /\ sec.content.role = task_results[i].task.role
                      /\ sec.content.prompt = task_results[i].task.prompt
                      /\ Len(sec.content.findings) = Min(3, Len(ev))
                      /\ \A j \in 1..Len(sec.content.findings) :
                            /\ StrLen(sec.content.findings[j].snippet) <= 240
                            /\ sec.content.findings[j].snippet = Slice(ev[j].snippet, 240)
                            /\ sec.content.findings[j].domain = ev[j].domain
            /\ final.contradictions_and_uncertainities = <<>>
            /\ Len(final.citations) = Len(flat)
            /\ \A k \in 1..Len(flat) :
                  /\ final.citations[k].id = flat[k].source_id
                  /\ final.citations[k].url = flat[k].url
                  /\ final.citations[k].title = flat[k].title

\* the LLM answered the synthesis prompt with text json.loads rejects, and
\* the fallback brief cut a task's evidence to 3 snippets and a snippet to
\* 240 characters
C21_Witness ==
    /\ pc = "returned"
    /\ llm_available
    /\ synth_response.kind = "bad_json"
    /\ \E i \in 1..Len(task_results) : Len(task_results[i].evidence) > 3
    /\ \E i \in 1..Len(task_results) :
          /\ task_results[i].evidence # <<>>
          /\ StrLen(task_results[i].evidence[1].snippet) > 240
          /\ StrLen(final.sections[i].content.findings[1].snippet) = 240

\* the keys of a Brief
BriefKeys ==
    {"sections", "conclusion", "contradictions_and_uncertainities", "citations",
     "knowledge_graph"}

\* on the LLM path citations and knowledge_graph are the model's when it
\* gave them, and those of the collected evidence otherwise
BackfilledOnlyIfOmitted ==
    (BriefMade /\ ~NoLLMBrief) =>
        /\ final.citations =
              IF "citations" \in DOMAIN synth_response.d THEN synth_response.d.citations
              ELSE Citations(task_results)
        /\ final.knowledge_graph =
              IF "knowledge_graph" \in DOMAIN synth_response.d
              THEN synth_response.d.knowledge_graph
              ELSE build_graph(Join(<<"nn">>, TopTexts(task_results)))
        /\ \A k \in DOMAIN synth_response.d : final[k] = synth_response.d[k]

\* C22: every brief synthesize_brief returns, on the LLM path and on the
\* fallback path, has the keys sections, conclusion, the contradictions list,
\* citations and knowledge_graph; on the LLM path citations and
\* knowledge_graph are backfilled only when the model omitted them and a
\* value the model supplied is kept.
C22_BriefComplete ==
    /\ BriefMade => BriefKeys \subseteq DOMAIN final
    /\ BackfilledOnlyIfOmitted

-----------------------------------------------------------------------------
(* _kg_centrality_score: SpecScore                                         *)

\* the ids of the nodes a graph lists, and the pairs its links name
ListedNodes(kg) == {NodeId(Get(kg, "nodes", <<>>)[i]) : i \in 1..Len(Get(kg, "nodes", <<>>))}
NamedEdges(kg) ==
    {{Get(kg, "links", <<>>)[i].source, Get(kg, "links", <<>>)[i].target} :
        i \in {j \in 1..Len(Get(kg, "links", <<>>)) :
                  /\ Get(kg, "links", <<>>)[j].source # EmptyStr
                  /\ Get(kg, "links", <<>>)[j].target # EmptyStr}}

\* the sum of the degrees of the nodes vs in the undirected graph of edges es
\* (a loop counts twice)
RECURSIVE DegreeSum(_, _)
DegreeSum(vs, es) ==
    IF vs = {} THEN 0
    ELSE LET v == CHOOSE x \in vs : TRUE
         IN  Cardinality({e \in es : v \in e}) + Cardinality({e \in es : e = {v}})
             + DegreeSum(vs \ {v}, es)

\* min(0.95, 1.5 * mean degree centrality) in 1/1000, for a graph of at
\* least 2 nodes: the degree centrality of a node is degree / (n - 1)
MeanCentralityScore(vs, es) ==
    LET n == Cardinality(vs)
    IN  Min(950, RoundDiv(1500 * DegreeSum(vs, es), n * (n - 1)))

\* a graph object with a node list whose nodes all have an id, scored with
\* networkx installed
ListedGraph ==
    /\ cred_pc = "scored"
    /\ cred_args.has_nx
    /\ cred_args.kg_data.t = "dict"
    /\ "nodes" \in DOMAIN cred_args.kg_data.d
    /\ EmptyStr \notin ListedNodes(cred_args.kg_data)

\* C23: the centrality score score uses is 0.5 without a graph, 0.45 when
\* the graph lists fewer than 2 nodes (an empty node list, or one listed
\* node and links that name other endpoints), and otherwise min(0.95, 1.5 *
\* mean degree centrality) of the undirected graph of the listed nodes and
\* the links.
C23_CentralityScore ==
    /\ (cred_pc = "scored" /\ cred_args.kg_data = None) =>
          cred_parts.centrality_score = 500
    /\ ListedGraph =>
          LET vs == ListedNodes(cred_args.kg_data)
              es == NamedEdges(cred_args.kg_data)
          IN  cred_parts.centrality_score =
                 IF Cardinality(vs) < 2 THEN 450
                 ELSE MeanCentralityScore(vs \cup UNION es, es)

\* the same without the graphs whose links name a node that is not listed
CentralityScoreOfClosedGraphs ==
    /\ (cred_pc = "scored" /\ cred_args.kg_data = None) =>
          cred_parts.centrality_score = 500
    /\ (ListedGraph /\ UNION NamedEdges(cred_args.kg_data) \subseteq ListedNodes(cred_args.kg_data)) =>
          LET vs == ListedNodes(cred_args.kg_data)
              es == NamedEdges(cred_args.kg_data)
          IN  cred_parts.centrality_score =
                 IF Cardinality(vs) < 2 THEN 450
                 ELSE MeanCentralityScore(vs, es)

-----------------------------------------------------------------------------
(* length_factor: SpecNorm                                                 *)

\* the texts of the harness
HarnessTexts == {Text0, Text50, Text500, Text4000}

\* length_factor does not decrease with the length of the text, and is 1
\* from 4000 characters on
LengthFactorSaturates ==
    /\ \A s \in HarnessTexts : \A t \in HarnessTexts :
          StrLen(s) <= StrLen(t) => LengthFactorE5(s) <= LengthFactorE5(t)
    /\ \A t \in HarnessTexts \cup {<<"x3999", ".", "x499">>} :
          StrLen(t) >= 4000 => LengthFactorE5(t) = 100000

\* C24: normalize_and_score_evidence gives an item with empty text the
\* length_factor 0, so that its relevance is domain_trust * score * 0.4
\* rounded to 3 decimals; length_factor does not decrease with the length of
\* the text and is 1 for a text of 4000 characters or more.
C24_EmptyTextFactorZero ==
    /\ norm_pc # "input" =>
          \A i \in 1..Len(normalized) :
             normalized[i].text = EmptyStr =>
                /\ LengthFactorE5(normalized[i].text) = 0
                /\ normalized[i].relevance =
                      RoundDiv(DomScoreC(normalized[i].domain) * normalized[i].score * 4, 100)
    /\ LengthFactorSaturates

====
